---- MODULE Spec2Model ----
(***************************************************************************)
(* A model of the Dual IP button (class IPDisplay) of the Stream Deck IP   *)
(* display plugin: the event handlers of one action type running on one    *)
(* event loop, the public address cache, the shared refresh timer and the  *)
(* long-press timers.                                                      *)
(*                                                                         *)
(* A handler runs from one await to the next as one step.  An await of an  *)
(* already settled promise (a cache hit in getPublicIPAddress) continues   *)
(* in a microtask, before any other event is handled, so it does not end   *)
(* the step; the outbound fetch and the host's setImage do.  Date.now() is *)
(* the variable now, in milliseconds.  A due setTimeout runs before any    *)
(* I/O callback is handled (the timers phase of the loop precedes the poll *)
(* phase).                                                                 *)
(***************************************************************************)
EXTENDS Integers, Sequences, FiniteSets, TLC

VARIABLES now, visibleActions, refreshTimer, intervals, pressTimers, timeouts,
          publicIPCache, tasks, nextId, hostKey, clipboard,
          persistedMode,
          presses, lastCall, appeared, hostVisible, succeeded, lastDelivered,
          pure

vars == <<now, visibleActions, refreshTimer, intervals, pressTimers, timeouts,
          publicIPCache, tasks, nextId, hostKey, clipboard,
          persistedMode,
          presses, lastCall, appeared, hostVisible, succeeded, lastDelivered,
          pure>>

(* ------------------------------------------------------------------ *)
(* Program constants                                                   *)
(* ------------------------------------------------------------------ *)

LONG_PRESS_THRESHOLD == 800

CACHE_DURATION == 5 * 60 * 1000

DefaultRefreshInterval == 600000

(* ------------------------------------------------------------------ *)
(* Bounds of the model                                                 *)
(* ------------------------------------------------------------------ *)

\* handler invocations (host events and timer sweeps) started in one run
MaxTasks == 3

\* handler invocations suspended on an await at the same time
MaxInFlight == 2

\* advances of the clock in one run
MaxTicks == 2

\* the clock advances by one of two steps: half the long-press threshold,
\* and the step that brings a cache entry to 400 ms short of its expiry
ShortStep == LONG_PRESS_THRESHOLD \div 2

LongStep == CACHE_DURATION - ShortStep

TimeSteps == {ShortStep, LongStep}

Instances == {"A", "B"}

\* null, and the values that stand for addresses
Null == "null"

PublicIPs == {"1.2.3.4", "5.6.7.8"}

\* settings.refreshInterval: absent (<<>>) or a number
SettingsValues == {[refreshInterval |-> <<>>],
                   [refreshInterval |-> <<0>>],
                   [refreshInterval |-> <<60000>>]}

\* settings without any field set
NoSettings == [refreshInterval |-> <<>>]

\* what the lookup service answers: an address, a body without one, or an
\* error (network error, non-success status, malformed body)
Outcomes == [kind : {"ok"}, ip : PublicIPs] \cup
            {[kind |-> "empty", ip |-> Null], [kind |-> "error", ip |-> Null]}

\* the answers that matter to the refresh timer: an address or an error
TimerOutcomes == {[kind |-> "ok", ip |-> "1.2.3.4"], [kind |-> "error", ip |-> Null]}

\* net.family: a string ('IPv4', 'IPv6') or, in older runtimes, a number
\* (4, 6)
FamilyString(str) == [isString |-> TRUE, str |-> str, num |-> 0]

FamilyNumber(num) == [isString |-> FALSE, str |-> "", num |-> num]

Families == {FamilyString("IPv4"), FamilyString("IPv6"), FamilyNumber(4), FamilyNumber(6)}

\* os.networkInterfaces() while the handlers run: adapters in enumeration
\* order
Nets == << [name |-> "lo", addrs |-> << [family |-> FamilyString("IPv4"), internal |-> TRUE,
                                         address |-> "127.0.0.1"] >>],
           [name |-> "eth0", addrs |-> << [family |-> FamilyString("IPv6"), internal |-> FALSE,
                                           address |-> "fe80::1"],
                                          [family |-> FamilyString("IPv4"), internal |-> FALSE,
                                           address |-> "192.168.1.100"] >>] >>

\* the adapter enumerations getLocalIPAddress is checked on: adapters with
\* distinct names in any number and order, each with up to MaxAddrs entries
\* of any family, the IPv4 ones internal or not, every entry with its own
\* address
MaxAddrs == 2

AdapterNames == {"eth0", "wlan0"}

AddressTable == << <<"10.0.1.1", "10.0.1.2", "10.0.1.3">>,
                   <<"10.0.2.1", "10.0.2.2", "10.0.2.3">> >>

EntryKinds ==
    {kind \in [family : Families, internal : BOOLEAN] :
        kind.internal => kind.family \in {FamilyString("IPv4"), FamilyNumber(4)}}

KindLists == UNION {[1..n -> EntryKinds] : n \in 0..MaxAddrs}

NameOrders ==
    {names \in UNION {[1..n -> AdapterNames] : n \in 0..Cardinality(AdapterNames)} :
        \A a, b \in 1..Len(names) : names[a] = names[b] => a = b}

\* the enumerations of the adapters with the given names, in that order
EnumerationsOf(names) ==
    {[k \in 1..Len(names) |->
         [name |-> names[k],
          addrs |-> [j \in 1..Len(kinds[k]) |->
                        [family |-> kinds[k][j].family,
                         internal |-> kinds[k][j].internal,
                         address |-> AddressTable[k][j]]]]] :
       kinds \in [1..Len(names) -> KindLists]}

\* settings.networkInterface: unset (<<>>) or the name of an adapter that is
\* there, or of one that is not
Hints == {<<>>, <<"eth0">>, <<"wlan0">>, <<"tun0">>}

(* ------------------------------------------------------------------ *)
(* Pure functions                                                      *)
(* ------------------------------------------------------------------ *)

\* a family test that knows the string encoding only
familyV4ValueStringOnly(family) == FamilyString("IPv4")

\* const familyV4Value = typeof net.family === 'string' ? 'IPv4' : 4
familyV4Value(family) ==
    IF family.isString THEN FamilyString("IPv4") ELSE FamilyNumber(4)

\* net.family === familyV4Value && !net.internal
Qualifies(net) == net.family = familyV4Value(net.family) /\ ~net.internal

\* the first non-internal IPv4 address of a list of addresses, or Null
FirstIPv4(addrs) ==
    LET ok == {k \in 1..Len(addrs) : Qualifies(addrs[k])}
    IN  IF ok = {} THEN Null
        ELSE addrs[CHOOSE k \in ok : \A j \in ok : k <= j].address

\* the scan of getLocalIPAddress without the adapter override
resolveLocalAddressNoHint(nets, hint) ==
    LET ok == {k \in 1..Len(nets) : FirstIPv4(nets[k].addrs) # Null}
    IN  IF ok = {} THEN Null
        ELSE FirstIPv4(nets[CHOOSE k \in ok : \A j \in ok : k <= j].addrs)

\* the body of getLocalIPAddress on the enumeration nets with the adapter
\* hint (settings.networkInterface): the hinted adapter first when it is
\* there and has a qualifying address, then the adapters in enumeration
\* order
resolveLocalAddress(nets, hint) ==
    LET named == IF hint # <<>> THEN {k \in 1..Len(nets) : nets[k].name = hint[1]}
                 ELSE {}
        hit   == {k \in named : FirstIPv4(nets[k].addrs) # Null}
        ok    == {k \in 1..Len(nets) : FirstIPv4(nets[k].addrs) # Null}
    IN  IF hit # {} THEN FirstIPv4(nets[CHOOSE k \in hit : TRUE].addrs)
        ELSE IF ok = {} THEN Null
        ELSE FirstIPv4(nets[CHOOSE k \in ok : \A j \in ok : k <= j].addrs)

\* an adapter test that takes loopback entries too
hasIPv4AnyScope(netInterface) ==
    \E j \in 1..Len(netInterface.addrs) :
        netInterface.addrs[j].family = familyV4Value(netInterface.addrs[j].family)

\* const hasIPv4 = netInterface.some(net => net.family === familyV4 &&
\* !net.internal)
hasIPv4(netInterface) ==
    \E j \in 1..Len(netInterface.addrs) : Qualifies(netInterface.addrs[j])

\* the items onSendToPlugin sends to the property inspector on a
\* getNetworkInterfaces request: the adapters that pass hasIPv4, in
\* enumeration order, each name as label and as value
networkInterfaceItems(nets) ==
    LET interfaces == SelectSeq(nets, hasIPv4)
    IN  [k \in 1..Len(interfaces) |->
            [label |-> interfaces[k].name, value |-> interfaces[k].name]]

\* settings.networkInterface, when set
NetworkInterfaceOf(settings) ==
    IF "networkInterface" \in DOMAIN settings THEN <<settings.networkInterface>> ELSE <<>>

\* what getLocalIPAddress returns on the adapters of the machine, which stay
\* as they are while the handlers run, for each of the settings
LocalAddressOn ==
    [settings \in SettingsValues |->
        resolveLocalAddress(Nets, NetworkInterfaceOf(settings))]

\* getLocalIPAddress(settings) on the adapters of the machine
getLocalIPAddress(settings) == LocalAddressOn[settings]

\* A string handed to the renderer is the sequence of its characters, and a
\* value that may be null or undefined is <<>> or <<value>>.
\* the characters of "192.168.1.100", "1.2.3.4" and "10.0.1"
Chars192 == <<"1", "9", "2", ".", "1", "6", "8", ".", "1", ".", "1", "0", "0">>

Chars1234 == <<"1", ".", "2", ".", "3", ".", "4">>

Chars1001 == <<"1", "0", ".", "0", ".", "1">>

\* the value is truthy: neither null nor the empty string
Truthy(opt) == opt # <<>> /\ opt[1] # <<>>

\* opt || default, for a setting that is a string
OrDefault(opt, default) ==
    IF opt # <<>> /\ opt[1] # "" THEN opt[1] ELSE default

\* chars.split('.')
RECURSIVE Split(_)
Split(chars) ==
    LET dots == {k \in 1..Len(chars) : chars[k] = "."}
    IN  IF dots = {} THEN <<chars>>
        ELSE LET k == CHOOSE d \in dots : \A e \in dots : d <= e
             IN  <<SubSeq(chars, 1, k - 1)>> \o Split(SubSeq(chars, k + 1, Len(chars)))

\* a splitIP whose first line lacks the dot at its end
splitIPNoDot(ip) ==
    IF ~Truthy(ip) THEN <<>>
    ELSE LET parts == Split(ip[1])
         IN  IF Len(parts) # 4 THEN <<>>
             ELSE <<[line1 |-> parts[1] \o <<".">> \o parts[2],
                     line2 |-> parts[3] \o <<".">> \o parts[4]]>>

\* splitIP: null for no address and for one that has not four parts, else
\* the two lines
splitIP(ip) ==
    IF ~Truthy(ip) THEN <<>>
    ELSE LET parts == Split(ip[1])
         IN  IF Len(parts) # 4 THEN <<>>
             ELSE <<[line1 |-> parts[1] \o <<".">> \o parts[2] \o <<".">>,
                     line2 |-> parts[3] \o <<".">> \o parts[4]]>>

\* what the renderer does to the canvas, as far as the properties look: it
\* sets the fill colour, draws a text, and fills the status dot
Style(colour) == [op |-> "fillStyle", v |-> <<colour>>]

Text(chars) == [op |-> "fillText", v |-> chars]

Dot == [op |-> "fill", v |-> <<>>]

\* a status colour that knows connected and not connected only
DualStatusColorTwoTone(localIP, publicIP) ==
    IF Truthy(localIP) \/ Truthy(publicIP) THEN "#00FF00" ELSE "#FF6B6B"

\* the colour of the status dot when both addresses are shown
DualStatusColor(localIP, publicIP) ==
    IF Truthy(localIP) /\ Truthy(publicIP) THEN "#00FF00"
    ELSE IF Truthy(localIP) \/ Truthy(publicIP) THEN "#FFAA00"
    ELSE "#FF6B6B"

\* the colour of the status dot when one address is shown
SingleStatusColor(ip) == IF Truthy(ip) THEN "#00FF00" ELSE "#FF6B6B"

\* the address as the renderer draws it: in two lines when multilineIP is
\* set and splitIP succeeds, in one line otherwise, or the placeholder
AddressTexts(ip, placeholder, multiline) ==
    IF multiline
    THEN IF splitIP(ip) # <<>>
         THEN <<Text(splitIP(ip)[1].line1), Text(splitIP(ip)[1].line2)>>
         ELSE <<Text(<<placeholder>>)>>
    ELSE <<Text(IF Truthy(ip) THEN ip[1] ELSE <<placeholder>>)>>

\* IPDisplay.generateIPImage: both addresses, the dot before the second
\* label, fixed colours
generateIPImage(localIP, publicIP, settings) ==
    <<Style("#C0C0C0"), Text(<<OrDefault(settings.customLocalLabel, "LOCAL IP")>>),
      Style("#FFFFFF")>> \o
    AddressTexts(localIP, "No Local IP", settings.multilineIP) \o
    <<Style(DualStatusColor(localIP, publicIP)), Dot,
      Style("#C0C0C0"), Text(<<OrDefault(settings.customPublicLabel, "PUBLIC IP")>>),
      Style("#FFFFFF")>> \o
    AddressTexts(publicIP, "No Public IP", settings.multilineIP)

\* ToggleIPDisplay.generateToggleImage: by the mode both addresses or one,
\* labels and addresses in the colours of the settings
generateToggleImage(localIP, publicIP, mode, settings) ==
    LET labelStyle  == Style(OrDefault(settings.labelColor, "#C0C0C0"))
        ipStyle     == Style(OrDefault(settings.ipColor, "#FFFFFF"))
        localLabel  == Text(<<OrDefault(settings.customLocalLabel, "LOCAL IP")>>)
        publicLabel == Text(<<OrDefault(settings.customPublicLabel, "PUBLIC IP")>>)
    IN  IF mode = "dual"
        THEN <<labelStyle, localLabel, ipStyle>> \o
             AddressTexts(localIP, "No Local IP", settings.multilineIP) \o
             <<Style(DualStatusColor(localIP, publicIP)), Dot,
               labelStyle, publicLabel, ipStyle>> \o
             AddressTexts(publicIP, "No Public IP", settings.multilineIP)
        ELSE IF mode = "local"
        THEN <<Style(SingleStatusColor(localIP)), Dot, labelStyle, localLabel, ipStyle>> \o
             AddressTexts(localIP, "No Local IP", settings.multilineIP)
        ELSE <<Style(SingleStatusColor(publicIP)), Dot, labelStyle, publicLabel, ipStyle>> \o
             AddressTexts(publicIP, "No Public IP", settings.multilineIP)

\* the cache test with the bound of the age included
CacheValidInclusive(cache, t) ==
    cache.ip # Null /\ (t - cache.timestamp) <= CACHE_DURATION

\* the test at the head of getPublicIPAddress: serve the cached value
CacheValid(cache, t) ==
    cache.ip # Null /\ (t - cache.timestamp) < CACHE_DURATION

\* const { refreshInterval = 600000 } = settings
IntervalOf(settings) ==
    IF settings.refreshInterval = <<>> THEN DefaultRefreshInterval
    ELSE settings.refreshInterval[1]

\* settings.mode of a Toggle button as the host persists it: absent, or one
\* of the three modes
PersistedModes == {"none", "dual", "local", "public"}

\* const { mode = 'dual' } = ev.payload.settings
ModeOf(m) == IF m = "none" THEN "dual" ELSE m

\* ToggleIPDisplay.getNextMode
getNextMode(currentMode) ==
    CASE currentMode = "dual" -> "local"
      [] currentMode = "local" -> "public"
      [] currentMode = "public" -> "dual"
      [] OTHER -> "dual"

\* the text ToggleIPDisplay.copyToClipboard writes, by the mode
ToggleClipboardText(localIP, publicIP, mode) ==
    IF mode = "dual"
    THEN IF localIP # Null /\ publicIP # Null THEN <<localIP, ",", publicIP>>
         ELSE IF localIP # Null THEN <<localIP>>
         ELSE IF publicIP # Null THEN <<publicIP>>
         ELSE <<"No IP address available">>
    ELSE IF mode = "local"
    THEN IF localIP # Null THEN <<localIP>> ELSE <<"No IP address available">>
    ELSE IF publicIP # Null THEN <<publicIP>> ELSE <<"No IP address available">>

\* the text IPDisplay.copyToClipboard writes
ClipboardText(localIP, publicIP) ==
    IF localIP # Null /\ publicIP # Null THEN <<"Local: ", localIP, "\nPublic: ", publicIP>>
    ELSE IF localIP # Null THEN <<localIP>>
    ELSE IF publicIP # Null THEN <<publicIP>>
    ELSE <<"No IP address available">>

(* ------------------------------------------------------------------ *)
(* State                                                               *)
(* ------------------------------------------------------------------ *)

\* presses records, for every press-down the host delivered, what the
\* properties need: the instance, the time of the press-down while the key
\* is down, how the key was released (held), whether the instance went
\* away while the key was down (gone) or at any time since (left), how
\* often the short-press branch of onKeyUp (short) and the long-press timer
\* (long) ran for it, how often the timer ran for it after the instance
\* had gone (late), and the indicators copyToClipboard showed for it (shown).
\* appeared is the set of instances that have appeared so far, hostVisible
\* the set of those whose last visibility event from the host was an appear.
\* succeeded tells whether a lookup has answered with an address so far.
\* lastDelivered is the appear or settings-changed event the host delivered
\* last: the refresh interval it carried (-1 before the first event) and the
\* identifier of the handler invocation it started.
\* lastCall describes the call of getPublicIPAddress made by the step that
\* led to the current state, if that step made one: the cache entry it found
\* (ip, age), whether it served it (hit) and the value it returned at once
\* (result)
NoCall == [made |-> FALSE, ip |-> Null, age |-> 0, hit |-> FALSE, result |-> Null]

\* pure holds the application of a pure function that is checked on its
\* own: the function (fn), its arguments (args) and, once it was applied,
\* its result (out); the handlers never touch it
NoPure == [fn |-> "none", args |-> <<>>, out |-> <<>>]

\* { ip: null, timestamp: 0 }: the cache entry at construction and after
\* a short press has cleared it
ClearedCache == [ip |-> Null, timestamp |-> 0]

\* the state after construction, with the modes the host has persisted
InitWith(modes) ==
    /\ now = 0
    /\ visibleActions = <<>>
    /\ refreshTimer = 0
    /\ intervals = {}
    /\ pressTimers = <<>>
    /\ timeouts = {}
    /\ publicIPCache = ClearedCache
    /\ tasks = {}
    /\ nextId = 1
    /\ hostKey = [i \in Instances |-> 0]
    /\ clipboard = <<>>
    /\ persistedMode = modes
    /\ presses = <<>>
    /\ lastCall = NoCall
    /\ appeared = {}
    /\ hostVisible = {}
    /\ succeeded = FALSE
    /\ lastDelivered = [interval |-> -1, id |-> 0]
    /\ pure = NoPure

\* buttons that were never toggled
Init == InitWith([i \in Instances |-> "none"])

\* instance A is a Toggle button with any persisted mode
InitToggle ==
    \E m \in PersistedModes :
        InitWith([i \in Instances |-> IF i = "A" THEN m ELSE "none"])

\* both instances are visible with refreshInterval = 0 (no refresh timer):
\* their appear handlers, the invocations -1 and 0, have finished, and their
\* lookups have failed, so the cache is empty
InitShown ==
    /\ now = 0
    /\ visibleActions = [i \in Instances |->
                            [settings |-> [refreshInterval |-> <<0>>],
                             stamp |-> IF i = "A" THEN -1 ELSE 0,
                             mode |-> "dual"]]
    /\ refreshTimer = 0
    /\ intervals = {}
    /\ pressTimers = <<>>
    /\ timeouts = {}
    /\ publicIPCache = ClearedCache
    /\ succeeded = FALSE
    /\ tasks = {}
    /\ nextId = 1
    /\ hostKey = [i \in Instances |-> 0]
    /\ clipboard = <<>>
    /\ persistedMode = [i \in Instances |-> "none"]
    /\ presses = <<>>
    /\ lastCall = NoCall
    /\ appeared = Instances
    /\ hostVisible = Instances
    /\ lastDelivered = [interval |-> 0, id |-> 0]
    /\ pure = NoPure

\* button A is visible with the default settings, the first entry of
\* visibleActions: its appear handler has finished and has started the
\* refresh timer, the interval -1; its lookup has failed, so the cache is
\* empty
InitOnView ==
    /\ now = 0
    /\ visibleActions = [i \in {"A"} |->
                            [settings |-> NoSettings, stamp |-> 1, mode |-> "dual"]]
    /\ refreshTimer = -1
    /\ intervals = {[id |-> -1, period |-> DefaultRefreshInterval]}
    /\ pressTimers = <<>>
    /\ timeouts = {}
    /\ publicIPCache = ClearedCache
    /\ succeeded = FALSE
    /\ tasks = {}
    /\ nextId = 1
    /\ hostKey = [i \in Instances |-> 0]
    /\ clipboard = <<>>
    /\ persistedMode = [i \in Instances |-> "none"]
    /\ presses = <<>>
    /\ lastCall = NoCall
    /\ appeared = {"A"}
    /\ hostVisible = {"A"}
    /\ lastDelivered = [interval |-> DefaultRefreshInterval, id |-> -1]
    /\ pure = NoPure

\* a map that holds one entry only: setting a key drops the others
MapSetSingle(m, k, v) == [x \in {k} |-> v]

\* a map with key k set to v
MapSet(m, k, v) == [x \in DOMAIN m \cup {k} |-> IF x = k THEN v ELSE m[x]]

\* a delete that leaves the key in the map
MapDeleteSkipped(m, k) == m

\* a map with key k deleted
MapDelete(m, k) == [x \in DOMAIN m \ {k} |-> m[x]]

\* no long-press timer is due: the loop reaches its poll phase
NoTimerDue == \A tm \in timeouts : tm.due > now

\* a new handler invocation may start
CanStart == nextId <= MaxTasks /\ Cardinality(tasks) < MaxInFlight /\ NoTimerDue

\* the locals of a handler invocation that it still uses after an await
NewTask(kind, i, settings) ==
    [id |-> nextId, kind |-> kind, inst |-> i, pc |-> "start", settings |-> settings,
     pressTime |-> 0, localIP |-> getLocalIPAddress(settings), publicIP |-> Null,
     fetchNow |-> 0, atCall |-> ClearedCache, stamp |-> 0, press |-> 0,
     mode |-> ModeOf(persistedMode[i]), logged |-> FALSE]

\* the record a call of getPublicIPAddress leaves for the properties
CallRecord(cache, hit) ==
    [made |-> TRUE, ip |-> cache.ip, age |-> now - cache.timestamp,
     hit |-> hit, result |-> IF hit THEN cache.ip ELSE Null]

\* a clearInterval that is left out
ClearIntervalSkipped(h, armed) == armed

\* if (this.refreshTimer) clearInterval(this.refreshTimer): the armed
\* intervals left when the handle h is cleared
ClearInterval(h, armed) ==
    IF h # 0 THEN {x \in armed : x.id # h} ELSE armed

\* startRefreshTimer(settings) called by the invocation with identifier id
startRefreshTimer(settings, id) ==
    LET cleared == ClearInterval(refreshTimer, intervals)
    IN  IF IntervalOf(settings) > 0
        THEN /\ intervals' = cleared \cup {[id |-> id, period |-> IntervalOf(settings)]}
             /\ refreshTimer' = id
        ELSE /\ intervals' = cleared
             /\ refreshTimer' = 0

\* what a handler does once getPublicIPAddress has returned ip; rest is the
\* set of the other suspended invocations
AfterLookup(t, ip, rest) ==
    IF t.kind = "keyDown"
    THEN \* onKeyDown: arm the long-press timer, store the press
         /\ timeouts' = timeouts \cup
                {[id |-> t.id, inst |-> t.inst, due |-> now + LONG_PRESS_THRESHOLD,
                  localIP |-> t.localIP, publicIP |-> ip, mode |-> t.mode,
                  press |-> t.press]}
         /\ pressTimers' = MapSet(pressTimers, t.inst,
                [timestamp |-> t.pressTime, timer |-> t.id,
                 localIP |-> t.localIP, publicIP |-> ip, mode |-> t.mode])
         /\ tasks' = rest
    ELSE \* generateIPImage(localIP, publicIP, settings) and setImage
         /\ tasks' = rest \cup {[t EXCEPT !.pc = "setImage", !.publicIP = ip,
                                          !.fetchNow = 0, !.atCall = ClearedCache]}
         /\ UNCHANGED <<timeouts, pressTimers>>

\* a handler calls getPublicIPAddress when the cache entry is cache: the
\* cached value at once, or a fetch
CallLookup(t, rest, cache) ==
    IF CacheValid(cache, now)
    THEN /\ lastCall' = CallRecord(cache, TRUE)
         /\ AfterLookup(t, cache.ip, rest)
    ELSE /\ lastCall' = CallRecord(cache, FALSE)
         /\ tasks' = rest \cup {[t EXCEPT !.pc = "fetch", !.fetchNow = now,
                                          !.atCall = cache]}
         /\ UNCHANGED <<timeouts, pressTimers>>

(* ------------------------------------------------------------------ *)
(* Host events                                                         *)
(* ------------------------------------------------------------------ *)

\* onWillAppear: register the instance, look the addresses up, draw, and
\* (after the awaits) start the refresh timer
WillAppear(i, s) ==
    /\ UNCHANGED pure
    /\ CanStart
    /\ i \notin hostVisible
    /\ visibleActions' = MapSet(visibleActions, i,
                                [settings |-> s, stamp |-> nextId,
                                 mode |-> ModeOf(persistedMode[i])])
    /\ CallLookup(NewTask("appear", i, s), tasks, publicIPCache)
    /\ nextId' = nextId + 1
    /\ appeared' = appeared \cup {i}
    /\ hostVisible' = hostVisible \cup {i}
    /\ lastDelivered' = [interval |-> IntervalOf(s), id |-> nextId]
    /\ UNCHANGED <<now, refreshTimer, intervals, publicIPCache, hostKey, clipboard, presses,
                   succeeded, persistedMode>>

\* onKeyDown: take the time, look the addresses up, then arm the timer
KeyDown(i) ==
    /\ UNCHANGED pure
    /\ CanStart
    /\ i \in DOMAIN visibleActions
    /\ hostKey[i] = 0
    /\ LET p == Len(presses) + 1
       IN  /\ hostKey' = [hostKey EXCEPT ![i] = p]
           /\ presses' = Append(presses,
                  [inst |-> i, down |-> now, held |-> "down", gone |-> FALSE,
                   left |-> FALSE, short |-> 0, long |-> 0, late |-> 0,
                   shown |-> <<>>])
           /\ CallLookup([NewTask("keyDown", i, NoSettings)
                             EXCEPT !.press = p, !.pressTime = now],
                         tasks, publicIPCache)
    /\ nextId' = nextId + 1
    /\ UNCHANGED <<now, visibleActions, refreshTimer, intervals, publicIPCache, clipboard,
                   appeared,
                   hostVisible, succeeded, lastDelivered, persistedMode>>

\* how the host held the key: released before the threshold, or at or
\* after it
HeldFor(duration) ==
    IF duration < 800 THEN "short" ELSE "long"

\* onKeyUp: by the stored press, cancel the timer and, below the threshold,
\* clear the cache and refresh; a press that is not stored is ignored
KeyUp(i) ==
    /\ UNCHANGED pure
    /\ CanStart
    /\ i \in DOMAIN visibleActions
    /\ hostKey[i] # 0
    /\ hostKey' = [hostKey EXCEPT ![i] = 0]
    /\ nextId' = nextId + 1
    /\ LET p == hostKey[i]
           released == [presses EXCEPT ![p].held = HeldFor(now - presses[p].down),
                                       ![p].down = 0]
       IN  IF i \notin DOMAIN pressTimers
           THEN /\ presses' = released
                /\ lastCall' = NoCall
                /\ UNCHANGED <<timeouts, pressTimers, publicIPCache, tasks>>
           ELSE LET pressData == pressTimers[i]
                    duration  == now - pressData.timestamp
                    cleared   == {tm \in timeouts : tm.id # pressData.timer}
                IN  IF duration < LONG_PRESS_THRESHOLD
                    THEN /\ presses' = [released EXCEPT ![p].short = @ + 1]
                         /\ publicIPCache' = ClearedCache
                         /\ IF CacheValid(ClearedCache, now)
                            THEN /\ lastCall' = CallRecord(ClearedCache, TRUE)
                                 /\ tasks' = tasks \cup
                                       {[NewTask("keyUp", i, NoSettings)
                                            EXCEPT !.pc = "setImage", !.press = p]}
                            ELSE /\ lastCall' = CallRecord(ClearedCache, FALSE)
                                 /\ tasks' = tasks \cup
                                       {[NewTask("keyUp", i, NoSettings)
                                            EXCEPT !.pc = "fetch", !.press = p,
                                                   !.fetchNow = now]}
                         /\ timeouts' = cleared
                         /\ UNCHANGED pressTimers
                    ELSE /\ presses' = released
                         /\ lastCall' = NoCall
                         /\ timeouts' = cleared
                         /\ pressTimers' = MapDelete(pressTimers, i)
                         /\ UNCHANGED <<publicIPCache, tasks>>
    /\ UNCHANGED <<now, visibleActions, refreshTimer, intervals, clipboard, appeared,
                   hostVisible, succeeded, lastDelivered, persistedMode>>

\* the persisted mode after a press-up of the given duration on a Toggle
\* button whose event carries the mode m, were every press-up to toggle
PersistedAfterAnyPress(duration, m) == getNextMode(ModeOf(m))

\* the persisted mode after a press-up of the given duration on a Toggle
\* button whose event carries the mode m: setSettings({...settings, mode:
\* nextMode}) below the threshold only
PersistedAfter(duration, m) ==
    IF duration < LONG_PRESS_THRESHOLD THEN getNextMode(ModeOf(m)) ELSE m

\* ToggleIPDisplay.onKeyUp: as onKeyUp, but the short press first writes the
\* next mode through setSettings and awaits it; the cache is cleared and the
\* addresses are looked up after that await
ToggleKeyUp(i) ==
    /\ UNCHANGED pure
    /\ CanStart
    /\ i \in DOMAIN visibleActions
    /\ hostKey[i] # 0
    /\ hostKey' = [hostKey EXCEPT ![i] = 0]
    /\ nextId' = nextId + 1
    /\ lastCall' = NoCall
    /\ LET p == hostKey[i]
           released == [presses EXCEPT ![p].held = HeldFor(now - presses[p].down),
                                       ![p].down = 0]
       IN  IF i \notin DOMAIN pressTimers
           THEN /\ presses' = released
                /\ UNCHANGED <<timeouts, pressTimers, tasks, persistedMode>>
           ELSE LET pressData == pressTimers[i]
                    duration  == now - pressData.timestamp
                    cleared   == {tm \in timeouts : tm.id # pressData.timer}
                IN  /\ timeouts' = cleared
                    /\ persistedMode' = [persistedMode EXCEPT
                                            ![i] = PersistedAfter(duration, @)]
                    /\ IF duration < LONG_PRESS_THRESHOLD
                       THEN /\ presses' = [released EXCEPT ![p].short = @ + 1]
                            /\ tasks' = tasks \cup
                                  {[NewTask("keyUp", i, NoSettings)
                                       EXCEPT !.pc = "setSettings", !.press = p,
                                              !.mode = getNextMode(@)]}
                            /\ UNCHANGED pressTimers
                       ELSE /\ presses' = released
                            /\ pressTimers' = MapDelete(pressTimers, i)
                            /\ UNCHANGED tasks
    /\ UNCHANGED <<now, visibleActions, refreshTimer, intervals, publicIPCache, clipboard,
                   appeared, hostVisible, succeeded, lastDelivered>>

\* onWillDisappear: unregister, drop the stored press and its timer, and
\* stop the refresh timer when no instance is left
WillDisappear(i) ==
    /\ UNCHANGED pure
    /\ NoTimerDue
    /\ i \in hostVisible
    /\ visibleActions' = MapDelete(visibleActions, i)
    /\ IF i \in DOMAIN pressTimers
       THEN /\ timeouts' = {tm \in timeouts : tm.id # pressTimers[i].timer}
            /\ pressTimers' = MapDelete(pressTimers, i)
       ELSE UNCHANGED <<timeouts, pressTimers>>
    /\ IF DOMAIN visibleActions' = {} /\ refreshTimer # 0
       THEN /\ intervals' = ClearInterval(refreshTimer, intervals)
            /\ refreshTimer' = 0
       ELSE UNCHANGED <<intervals, refreshTimer>>
    /\ hostKey' = [hostKey EXCEPT ![i] = 0]
    /\ presses' = [p \in DOMAIN presses |->
                      IF presses[p].inst # i THEN presses[p]
                      ELSE [presses[p] EXCEPT !.left = TRUE, !.down = 0,
                                              !.gone = @ \/ hostKey[i] = p]]
    /\ lastCall' = NoCall
    /\ hostVisible' = hostVisible \ {i}
    /\ UNCHANGED <<now, publicIPCache, tasks, nextId, clipboard, appeared,
                   succeeded, lastDelivered, persistedMode>>

\* onDidReceiveSettings: restart the timer at once, then look up and draw
DidReceiveSettings(i, s) ==
    /\ UNCHANGED pure
    /\ CanStart
    /\ i \in DOMAIN visibleActions
    /\ startRefreshTimer(s, nextId)
    /\ CallLookup(NewTask("settings", i, s), tasks, publicIPCache)
    /\ nextId' = nextId + 1
    /\ lastDelivered' = [interval |-> IntervalOf(s), id |-> nextId]
    /\ UNCHANGED <<now, visibleActions, publicIPCache, hostKey, clipboard, presses,
                   appeared, hostVisible, succeeded, persistedMode>>

\* PublicIPOnlyDisplay.onDidReceiveSettings: restart the timer, nothing else
PublicOnlyDidReceiveSettings(i, s) ==
    /\ UNCHANGED pure
    /\ CanStart
    /\ i \in DOMAIN visibleActions
    /\ startRefreshTimer(s, nextId)
    /\ nextId' = nextId + 1
    /\ lastDelivered' = [interval |-> IntervalOf(s), id |-> nextId]
    /\ lastCall' = NoCall
    /\ UNCHANGED <<now, visibleActions, pressTimers, timeouts, publicIPCache, tasks,
                   hostKey, clipboard, presses, appeared, hostVisible, succeeded,
                   persistedMode>>

(* ------------------------------------------------------------------ *)
(* Continuations of suspended handlers                                 *)
(* ------------------------------------------------------------------ *)

\* a lookup whose answer is dropped: the cache entry stays as it is
CacheAfterDropped(cache, o, t0) == cache

\* the cache entry after a fetch started at time t0 has answered o
CacheAfter(cache, o, t0) ==
    IF o.kind = "error" THEN cache ELSE [ip |-> o.ip, timestamp |-> t0]

\* the value getPublicIPAddress returns after the answer o
LookupResult(cache, o) ==
    IF o.kind = "error" THEN cache.ip ELSE o.ip

\* the fetch of a suspended getPublicIPAddress answers: the cache is
\* written on success, and the handler goes on with the value returned
FetchReturn(t, o) ==
    /\ UNCHANGED pure
    /\ NoTimerDue
    /\ t \in tasks
    /\ t.pc = "fetch"
    /\ publicIPCache' = CacheAfter(publicIPCache, o, t.fetchNow)
    /\ AfterLookup(t, LookupResult(publicIPCache, o), tasks \ {t})
    /\ lastCall' = NoCall
    /\ succeeded' = (succeeded \/ o.kind = "ok")
    /\ UNCHANGED <<now, visibleActions, refreshTimer, intervals, nextId, hostKey,
                   clipboard, presses, appeared, hostVisible, lastDelivered, persistedMode>>

\* onWillAppear after its setImage: start the refresh timer
AppearDone(t) ==
    /\ UNCHANGED pure
    /\ NoTimerDue
    /\ t \in tasks
    /\ t.kind = "appear" /\ t.pc = "setImage"
    /\ startRefreshTimer(t.settings, t.id)
    /\ tasks' = tasks \ {t}
    /\ lastCall' = NoCall
    /\ UNCHANGED <<now, visibleActions, pressTimers, timeouts, publicIPCache, nextId,
                   hostKey, clipboard, presses, appeared,
                   hostVisible, succeeded, lastDelivered, persistedMode>>

\* onKeyUp after its setImage: delete the stored press
KeyUpDone(t) ==
    /\ UNCHANGED pure
    /\ NoTimerDue
    /\ t \in tasks
    /\ t.kind = "keyUp" /\ t.pc = "setImage"
    /\ pressTimers' = MapDelete(pressTimers, t.inst)
    /\ tasks' = tasks \ {t}
    /\ lastCall' = NoCall
    /\ UNCHANGED <<now, visibleActions, refreshTimer, intervals, timeouts, publicIPCache,
                   nextId, hostKey, clipboard, presses, appeared,
                   hostVisible, succeeded, lastDelivered, persistedMode>>

\* onKeyUp when its setImage throws: the handler ends with the rejection,
\* before it reaches pressTimers.delete
KeyUpFailed(t) ==
    /\ UNCHANGED pure
    /\ NoTimerDue
    /\ t \in tasks
    /\ t.kind = "keyUp" /\ t.pc = "setImage"
    /\ tasks' = tasks \ {t}
    /\ lastCall' = NoCall
    /\ UNCHANGED <<now, visibleActions, refreshTimer, intervals, pressTimers, timeouts,
                   publicIPCache, nextId, hostKey, clipboard, presses, appeared,
                   hostVisible, succeeded, lastDelivered, persistedMode>>

\* ToggleIPDisplay.onKeyUp after its setSettings: clear the cache, look the
\* addresses up and draw the next mode
SetSettingsDone(t) ==
    /\ UNCHANGED pure
    /\ NoTimerDue
    /\ t \in tasks
    /\ t.kind = "keyUp" /\ t.pc = "setSettings"
    /\ publicIPCache' = ClearedCache
    /\ CallLookup(t, tasks \ {t}, ClearedCache)
    /\ UNCHANGED <<now, visibleActions, refreshTimer, intervals, nextId, hostKey,
                   clipboard, presses, appeared, hostVisible, succeeded, lastDelivered,
                   persistedMode>>

\* onDidReceiveSettings after its setImage: the handler ends
SettingsDone(t) ==
    /\ UNCHANGED pure
    /\ NoTimerDue
    /\ t \in tasks
    /\ t.kind = "settings" /\ t.pc = "setImage"
    /\ tasks' = tasks \ {t}
    /\ lastCall' = NoCall
    /\ UNCHANGED <<now, visibleActions, refreshTimer, intervals, pressTimers, timeouts,
                   publicIPCache, nextId, hostKey, clipboard, presses, appeared,
                   hostVisible, succeeded, lastDelivered, persistedMode>>

(* ------------------------------------------------------------------ *)
(* Timers                                                              *)
(* ------------------------------------------------------------------ *)

\* the entries of visibleActions a Map iterator still has to visit after
\* the entry inserted with the given stamp (insertion order, live)
EntriesAfter(stamp) ==
    {i \in DOMAIN visibleActions : visibleActions[i].stamp > stamp}

\* refreshAllVisibleActions from the entry after stamp on: the next entry's
\* lookup and setImage, or the end of the loop
SweepFrom(t, rest, stamp) ==
    IF EntriesAfter(stamp) = {}
    THEN /\ tasks' = rest
         /\ lastCall' = NoCall
         /\ UNCHANGED <<timeouts, pressTimers>>
    ELSE LET i == CHOOSE x \in EntriesAfter(stamp) :
                     \A y \in EntriesAfter(stamp) :
                        visibleActions[x].stamp <= visibleActions[y].stamp
             e == visibleActions[i]
         IN  CallLookup([t EXCEPT !.inst = i,
                                  !.localIP = getLocalIPAddress(e.settings),
                                  !.mode = e.mode,
                                  !.stamp = e.stamp],
                        rest, publicIPCache)

\* a tick of the setInterval timer h: a sweep over the visible instances
\* starts (the model lets a tick come at any time while h is armed)
IntervalTick(h) ==
    /\ UNCHANGED pure
    /\ CanStart
    /\ h \in intervals
    /\ SweepFrom(NewTask("sweep", "A", NoSettings), tasks, 0)
    /\ nextId' = nextId + 1
    /\ UNCHANGED <<now, visibleActions, refreshTimer, intervals, publicIPCache, hostKey,
                   clipboard, presses, appeared,
                   hostVisible, succeeded, lastDelivered, persistedMode>>

\* a sweep without the try/catch around the loop body: an error ends it
SweepAfterUncaught(t, ok, rest) ==
    IF ok THEN SweepFrom([t EXCEPT !.logged = @ \/ ~ok], rest, t.stamp)
    ELSE /\ tasks' = rest
         /\ lastCall' = NoCall
         /\ UNCHANGED <<timeouts, pressTimers>>

\* the loop of refreshAllVisibleActions after the body for one instance has
\* ended: setImage returned (ok), or drawing or setImage threw and the catch
\* branch logged the error (~ok); either way on to the next entry
SweepAfter(t, ok, rest) == SweepFrom([t EXCEPT !.logged = @ \/ ~ok], rest, t.stamp)

\* the sweep after the setImage of one instance has returned or thrown
SweepNext(t, ok) ==
    /\ UNCHANGED pure
    /\ NoTimerDue
    /\ t \in tasks
    /\ t.kind = "sweep" /\ t.pc = "setImage"
    /\ SweepAfter(t, ok, tasks \ {t})
    /\ UNCHANGED <<now, visibleActions, refreshTimer, intervals, publicIPCache, nextId,
                   hostKey, clipboard, presses, appeared,
                   hostVisible, succeeded, lastDelivered, persistedMode>>

\* an indicator that reports success whatever happened
IndicatorAlwaysOk(written) == "ok"

\* copyToClipboard: showOk after the write, showAlert in the catch branch
Indicator(written) == IF written THEN "ok" ELSE "alert"

\* the long-press timer tm fires and copyToClipboard runs with the given
\* text: clipboard.write puts it on the clipboard (written) or throws, and
\* the indicator is shown
CopyToClipboard(tm, text, written) ==
    /\ UNCHANGED pure
    /\ tm \in timeouts
    /\ tm.due <= now
    /\ timeouts' = timeouts \ {tm}
    /\ clipboard' = IF written THEN text ELSE clipboard
    /\ presses' = [presses EXCEPT ![tm.press].long = @ + 1,
                                  ![tm.press].late = IF presses[tm.press].gone
                                                     THEN @ + 1 ELSE @,
                                  ![tm.press].shown = Append(@, Indicator(written))]
    /\ lastCall' = NoCall
    /\ UNCHANGED <<now, visibleActions, refreshTimer, intervals, pressTimers,
                   publicIPCache, tasks, nextId, hostKey, appeared,
                   hostVisible, succeeded, lastDelivered, persistedMode>>

\* the long-press timer tm of a Dual IP button fires, and the write succeeds
LongPressTimer(tm) ==
    CopyToClipboard(tm, ClipboardText(tm.localIP, tm.publicIP), TRUE)

\* the same, where clipboard.write throws
LongPressTimerFailed(tm) ==
    CopyToClipboard(tm, ClipboardText(tm.localIP, tm.publicIP), FALSE)

\* the long-press timer tm of a Toggle button fires, and the write succeeds
ToggleLongPressTimer(tm) ==
    CopyToClipboard(tm, ToggleClipboardText(tm.localIP, tm.publicIP, tm.mode), TRUE)

\* clock advances made so far
TicksTaken == (now \div LongStep) + ((now % LongStep) \div ShortStep)

\* time passes; never past the moment an armed long-press timer is due
Tick(d) ==
    /\ UNCHANGED pure
    /\ TicksTaken < MaxTicks
    /\ \A tm \in timeouts : now + d <= tm.due
    /\ now' = now + d
    /\ lastCall' = NoCall
    /\ UNCHANGED <<visibleActions, refreshTimer, intervals, pressTimers, timeouts,
                   publicIPCache, tasks, nextId, hostKey, clipboard, presses,
                   appeared,
                   hostVisible, succeeded, lastDelivered, persistedMode>>

(* ------------------------------------------------------------------ *)
(* Specifications                                                      *)
(* ------------------------------------------------------------------ *)

\* every event on every instance
Next ==
    \/ \E i \in Instances, s \in SettingsValues : WillAppear(i, s)
    \/ \E i \in Instances : KeyDown(i)
    \/ \E i \in Instances : KeyUp(i)
    \/ \E i \in Instances : WillDisappear(i)
    \/ \E i \in Instances, s \in SettingsValues : DidReceiveSettings(i, s)
    \/ \E t \in tasks, o \in Outcomes : FetchReturn(t, o)
    \/ \E t \in tasks : AppearDone(t)
    \/ \E t \in tasks : KeyUpDone(t)
    \/ \E t \in tasks : SettingsDone(t)
    \/ \E t \in tasks, ok \in BOOLEAN : SweepNext(t, ok)
    \/ \E h \in intervals : IntervalTick(h)
    \/ \E tm \in timeouts : LongPressTimer(tm)
    \/ \E tm \in timeouts : LongPressTimerFailed(tm)
    \/ \E t \in tasks : KeyUpFailed(t)
    \/ \E d \in TimeSteps : Tick(d)

Spec == Init /\ [][Next]_vars

\* the presses of one button: instance A appears, is pressed, released and
\* removed while time passes; its settings stay the default ones
NextPress ==
    \/ WillAppear("A", NoSettings)
    \/ KeyDown("A")
    \/ KeyUp("A")
    \/ WillDisappear("A")
    \/ \E t \in tasks, o \in Outcomes : FetchReturn(t, o)
    \/ \E t \in tasks : AppearDone(t)
    \/ \E t \in tasks : KeyUpDone(t)
    \/ \E tm \in timeouts : LongPressTimer(tm)
    \/ \E d \in TimeSteps : Tick(d)

SpecPress == Init /\ [][NextPress]_vars

\* the life of the shared refresh timer: both instances appear, disappear
\* and get new settings, and the timer ticks; no key is pressed and the
\* clock stands still
NextTimer ==
    \/ \E i \in Instances, s \in SettingsValues : WillAppear(i, s)
    \/ \E i \in Instances : WillDisappear(i)
    \/ \E i \in Instances, s \in SettingsValues : DidReceiveSettings(i, s)
    \/ \E t \in tasks, o \in TimerOutcomes : FetchReturn(t, o)
    \/ \E t \in tasks : AppearDone(t)
    \/ \E t \in tasks : SettingsDone(t)
    \/ \E t \in tasks : SweepNext(t, TRUE)
    \/ \E h \in intervals : IntervalTick(h)

SpecTimer == Init /\ [][NextTimer]_vars

\* two instances with default settings appear and disappear, and the timer
\* ticks
NextTwo ==
    \/ \E i \in Instances : WillAppear(i, NoSettings)
    \/ \E i \in Instances : WillDisappear(i)
    \/ \E t \in tasks, o \in TimerOutcomes : FetchReturn(t, o)
    \/ \E t \in tasks : AppearDone(t)
    \/ \E t \in tasks, ok \in BOOLEAN : SweepNext(t, ok)
    \/ \E h \in intervals : IntervalTick(h)

SpecTwo == Init /\ [][NextTwo]_vars

\* the same, where every fetch is answered or fails in the end and every
\* setImage returns or throws in the end
SpecTwoFair ==
    /\ SpecTwo
    /\ \A k \in 1..MaxTasks :
          /\ WF_vars(\E t \in tasks, o \in TimerOutcomes : t.id = k /\ FetchReturn(t, o))
          /\ WF_vars(\E t \in tasks, ok \in BOOLEAN : t.id = k /\ SweepNext(t, ok))

\* the public address cache: every handler that calls getPublicIPAddress,
\* on instance A, which stays visible, while time passes
NextCache ==
    \/ WillAppear("A", NoSettings)
    \/ KeyDown("A")
    \/ KeyUp("A")
    \/ DidReceiveSettings("A", NoSettings)
    \/ \E t \in tasks, o \in Outcomes : FetchReturn(t, o)
    \/ \E t \in tasks : AppearDone(t)
    \/ \E t \in tasks : KeyUpDone(t)
    \/ \E t \in tasks : SettingsDone(t)
    \/ \E t \in tasks : SweepNext(t, TRUE)
    \/ \E h \in intervals : IntervalTick(h)
    \/ \E tm \in timeouts : LongPressTimer(tm)
    \/ \E d \in TimeSteps : Tick(d)

SpecCache == Init /\ [][NextCache]_vars

\* the shared refresh timer of the Public IP button, whose handlers are
\* those of the Dual IP button but for onDidReceiveSettings
NextPublicOnly ==
    \/ \E i \in Instances, s \in SettingsValues : WillAppear(i, s)
    \/ \E i \in Instances : WillDisappear(i)
    \/ \E i \in Instances, s \in SettingsValues : PublicOnlyDidReceiveSettings(i, s)
    \/ \E t \in tasks, o \in TimerOutcomes : FetchReturn(t, o)
    \/ \E t \in tasks : AppearDone(t)
    \/ \E t \in tasks : SweepNext(t, TRUE)
    \/ \E h \in intervals : IntervalTick(h)

SpecPublicOnly == Init /\ [][NextPublicOnly]_vars

\* a Toggle button: instance A, with any persisted mode, appears and is
\* pressed and released while time passes
NextToggle ==
    \/ WillAppear("A", NoSettings)
    \/ KeyDown("A")
    \/ ToggleKeyUp("A")
    \/ \E t \in tasks : SetSettingsDone(t)
    \/ \E t \in tasks, o \in TimerOutcomes : FetchReturn(t, o)
    \/ \E t \in tasks : AppearDone(t)
    \/ \E t \in tasks : KeyUpDone(t)
    \/ \E tm \in timeouts : ToggleLongPressTimer(tm)
    \/ \E d \in TimeSteps : Tick(d)

SpecToggle == InitToggle /\ [][NextToggle]_vars

\* every event of a Toggle button: instance A appears, is pressed, gets new
\* settings and disappears, and the timer ticks
NextMode ==
    \/ WillAppear("A", NoSettings)
    \/ KeyDown("A")
    \/ ToggleKeyUp("A")
    \/ WillDisappear("A")
    \/ DidReceiveSettings("A", NoSettings)
    \/ \E t \in tasks : SetSettingsDone(t)
    \/ \E t \in tasks, o \in TimerOutcomes : FetchReturn(t, o)
    \/ \E t \in tasks : AppearDone(t)
    \/ \E t \in tasks : KeyUpDone(t)
    \/ \E t \in tasks : SettingsDone(t)
    \/ \E t \in tasks : SweepNext(t, TRUE)
    \/ \E h \in intervals : IntervalTick(h)
    \/ \E tm \in timeouts : ToggleLongPressTimer(tm)
    \/ \E d \in TimeSteps : Tick(d)

SpecMode == Init /\ [][NextMode]_vars

\* the keys of two buttons that are on view: both instances are pressed,
\* released and removed while time passes
NextKeys ==
    \/ \E i \in Instances : KeyDown(i)
    \/ \E i \in Instances : KeyUp(i)
    \/ \E i \in Instances : WillDisappear(i)
    \/ \E t \in tasks, o \in TimerOutcomes : FetchReturn(t, o)
    \/ \E t \in tasks : KeyUpDone(t)
    \/ \E tm \in timeouts : LongPressTimer(tm)
    \/ \E d \in TimeSteps : Tick(d)

SpecKeys == InitShown /\ [][NextKeys]_vars

\* the key of button A, where a setImage and a clipboard write may fail
NextKeyFailures ==
    \/ KeyDown("A")
    \/ KeyUp("A")
    \/ WillDisappear("A")
    \/ \E t \in tasks, o \in TimerOutcomes : FetchReturn(t, o)
    \/ \E t \in tasks : KeyUpDone(t)
    \/ \E t \in tasks : KeyUpFailed(t)
    \/ \E tm \in timeouts : LongPressTimer(tm)
    \/ \E tm \in timeouts : LongPressTimerFailed(tm)
    \/ \E d \in TimeSteps : Tick(d)

SpecKeyFailures == InitShown /\ [][NextKeyFailures]_vars

\* a Toggle button on view whose settings change: instance A, which stays
\* visible, is pressed and released and gets new settings, and the timer
\* ticks
NextKnown ==
    \/ \E s \in SettingsValues : DidReceiveSettings("A", s)
    \/ KeyDown("A")
    \/ ToggleKeyUp("A")
    \/ \E t \in tasks : SetSettingsDone(t)
    \/ \E t \in tasks, o \in TimerOutcomes : FetchReturn(t, o)
    \/ \E t \in tasks : KeyUpDone(t)
    \/ \E t \in tasks : SettingsDone(t)
    \/ \E t \in tasks : SweepNext(t, TRUE)
    \/ \E h \in intervals : IntervalTick(h)

SpecKnown == InitOnView /\ [][NextKnown]_vars

(* ------------------------------------------------------------------ *)
(* Pure functions applied on their own                                 *)
(* ------------------------------------------------------------------ *)

\* the state after construction in which the function fn waits to be
\* applied to args
InitPure(fn, args) ==
    /\ now = 0
    /\ visibleActions = <<>>
    /\ refreshTimer = 0
    /\ intervals = {}
    /\ pressTimers = <<>>
    /\ timeouts = {}
    /\ publicIPCache = ClearedCache
    /\ tasks = {}
    /\ nextId = 1
    /\ hostKey = [i \in Instances |-> 0]
    /\ clipboard = <<>>
    /\ persistedMode = [i \in Instances |-> "none"]
    /\ presses = <<>>
    /\ lastCall = NoCall
    /\ appeared = {}
    /\ hostVisible = {}
    /\ succeeded = FALSE
    /\ lastDelivered = [interval |-> -1, id |-> 0]
    /\ pure = [fn |-> fn, args |-> args, out |-> <<>>]

\* the function has been applied
Applied == pure.out # <<>>

\* the function fn returns result
Return(fn, result) ==
    /\ pure.fn = fn
    /\ ~Applied
    /\ pure' = [pure EXCEPT !.out = <<result>>]
    /\ UNCHANGED <<now, visibleActions, refreshTimer, intervals, pressTimers, timeouts,
                   publicIPCache, tasks, nextId, hostKey, clipboard, persistedMode,
                   presses, lastCall, appeared, hostVisible, succeeded, lastDelivered>>

\* getLocalIPAddress is called on an enumeration, with and without a hint
InitLocal ==
    \E names \in NameOrders, hint \in Hints : \E nets \in EnumerationsOf(names) :
        InitPure("getLocalIPAddress", [nets |-> nets, hint |-> hint])

GetLocalIPAddress ==
    Return("getLocalIPAddress", resolveLocalAddress(pure.args.nets, pure.args.hint))

SpecLocal == InitLocal /\ [][GetLocalIPAddress]_vars

\* the settings UI asks for the adapter list, or a handler resolves the
\* local address with an adapter override, on an enumeration
InitAdapters ==
    \E names \in NameOrders : \E nets \in EnumerationsOf(names) :
        \/ InitPure("onSendToPlugin", [nets |-> nets, hint |-> <<>>])
        \/ \E hint \in Hints \ {<<>>} :
              InitPure("getLocalIPAddress", [nets |-> nets, hint |-> hint])

OnSendToPlugin ==
    Return("onSendToPlugin", networkInterfaceItems(pure.args.nets))

NextAdapters == OnSendToPlugin \/ GetLocalIPAddress

SpecAdapters == InitAdapters /\ [][NextAdapters]_vars

\* the addresses handed to the renderers: null, the empty string, an
\* address, and a string of three parts
RenderIPs == {<<>>, << <<>> >>, <<Chars192>>, <<Chars1001>>}

\* an optional setting: unset, or one value
Optional(value) == {<<>>, <<value>>}

\* the settings the renderers read
RenderSettings ==
    [multilineIP : BOOLEAN,
     labelColor : Optional("#FF0000"), ipColor : Optional("#00FF00"),
     customLocalLabel : Optional("LAN"), customPublicLabel : Optional("WAN")]

\* the renderers are called on any pair of addresses, any mode and any
\* settings
InitDot ==
    \E localIP \in RenderIPs, publicIP \in RenderIPs, settings \in RenderSettings :
        \/ \E mode \in {"dual", "local", "public"} :
              InitPure("generateToggleImage",
                       [localIP |-> localIP, publicIP |-> publicIP, mode |-> mode,
                        settings |-> settings])
        \/ InitPure("generateIPImage",
                    [localIP |-> localIP, publicIP |-> publicIP, mode |-> "dual",
                     settings |-> settings])

GenerateToggleImage ==
    Return("generateToggleImage",
           generateToggleImage(pure.args.localIP, pure.args.publicIP, pure.args.mode,
                               pure.args.settings))

GenerateIPImage ==
    Return("generateIPImage",
           generateIPImage(pure.args.localIP, pure.args.publicIP, pure.args.settings))

NextDot == GenerateToggleImage \/ GenerateIPImage

SpecDot == InitDot /\ [][NextDot]_vars

\* the strings splitIP is checked on: all strings of up to MaxChars
\* characters over a digit and the dot, and the address 192.168.1.100
MaxChars == 7

SplitInputs ==
    UNION {[1..n -> {"1", "."}] : n \in 0..MaxChars} \cup {Chars192}

\* splitIP is called on null and on any of the strings, and the Dual IP
\* renderer in multi-line layout on any of them as the local or as the
\* public address
InitSplit ==
    \E opt \in {<<>>} \cup {<<chars>> : chars \in SplitInputs} :
        \/ InitPure("splitIP", [ip |-> opt])
        \/ \E other \in {<<>>, <<Chars1234>>}, localFirst \in BOOLEAN :
              InitPure("generateIPImage",
                       [localIP |-> IF localFirst THEN opt ELSE other,
                        publicIP |-> IF localFirst THEN other ELSE opt,
                        mode |-> "dual",
                        settings |-> [multilineIP |-> TRUE,
                                      labelColor |-> <<>>, ipColor |-> <<>>,
                                      customLocalLabel |-> <<>>,
                                      customPublicLabel |-> <<>>]])

SplitIP == Return("splitIP", splitIP(pure.args.ip))

NextSplit == SplitIP \/ GenerateIPImage

SpecSplit == InitSplit /\ [][NextSplit]_vars

\* the settings of a Toggle button as the host delivers them with an event:
\* every field unset (<<>>) or set
ToggleSettingsValues ==
    [mode : {<<>>, <<"dual">>, <<"local">>, <<"public">>},
     refreshInterval : Optional(60000),
     customLocalLabel : Optional("LAN"), customPublicLabel : Optional("WAN"),
     multilineIP : Optional(TRUE), networkInterface : Optional("eth0"),
     labelColor : Optional("#FF0000"), ipColor : Optional("#00FF00")]

\* const { mode = 'dual' } = ev.payload.settings
DestructuredMode(settings) ==
    IF settings.mode = <<>> THEN "dual" ELSE settings.mode[1]

\* the record the short-press branch of ToggleIPDisplay.onKeyUp hands to
\* setSettings: { ...ev.payload.settings, mode: nextMode }
onKeyUpSetSettings(settings) ==
    [settings EXCEPT !.mode = <<getNextMode(DestructuredMode(settings))>>]

\* the record onKeyDown of the ToggleIPDisplay of ip-toggle-display.ts, which
\* toggles on every press-down, hands to setSettings: { mode: nextMode }
onKeyDownSetSettings(settings) ==
    [f \in DOMAIN settings |->
        IF f = "mode" THEN <<getNextMode(DestructuredMode(settings))>> ELSE <<>>]

\* a press toggles the mode of a Toggle button with any settings, in either
\* of the two ToggleIPDisplay classes
InitPersist ==
    \E settings \in ToggleSettingsValues, fn \in {"onKeyUp", "onKeyDown"} :
        InitPure(fn, [settings |-> settings])

OnKeyUpSetSettings == Return("onKeyUp", onKeyUpSetSettings(pure.args.settings))

OnKeyDownSetSettings == Return("onKeyDown", onKeyDownSetSettings(pure.args.settings))

NextPersist == OnKeyUpSetSettings \/ OnKeyDownSetSettings

SpecPersist == InitPersist /\ [][NextPersist]_vars

(* ------------------------------------------------------------------ *)
(* Properties: the press disambiguator                                 *)
(* ------------------------------------------------------------------ *)

\* the press p is over: its press-up was delivered, none of its handlers
\* is suspended and no timer armed for it is pending
Resolved(p) ==
    /\ presses[p].held # "down"
    /\ \A t \in tasks : t.press # p
    /\ \A tm \in timeouts : tm.press # p

\* C1: for every press/release cycle of an instance that stays visible,
\* the short-press action and the long-press action are never both
\* performed, and once the cycle is over exactly one of them was performed
C1_ExactlyOneAction ==
    \A p \in DOMAIN presses :
        ~presses[p].left =>
            /\ presses[p].short + presses[p].long <= 1
            /\ Resolved(p) => presses[p].short + presses[p].long = 1

\* C2: a press released less than 800 ms after the press-down never gets
\* the long-press copy, and once it is over the short-press action was
\* performed exactly once
C2_ShortPressRefreshes ==
    \A p \in DOMAIN presses :
        (presses[p].held = "short" /\ ~presses[p].left) =>
            /\ presses[p].long = 0
            /\ presses[p].short <= 1
            /\ Resolved(p) => presses[p].short = 1

\* C3: when the press-up comes 800 ms or more after the press-down, the
\* timer has performed the long-press copy exactly once and the press-up
\* performs no short-press action
C3_LongPressCopies ==
    \A p \in DOMAIN presses :
        (presses[p].held = "long" /\ ~presses[p].left) =>
            /\ presses[p].long = 1
            /\ presses[p].short = 0

\* C4: after an instance has disappeared between press-down and press-up,
\* neither the long-press copy nor the short-press action is performed for
\* that press
C4_NoActionAfterDisappear ==
    \A p \in DOMAIN presses :
        presses[p].gone => presses[p].late = 0

(* ------------------------------------------------------------------ *)
(* Properties: the refresh scheduler                                   *)
(* ------------------------------------------------------------------ *)

\* C5: an armed refresh timer implies that some instance is visible
C5_TimerOnlyWhileVisible ==
    intervals # {} => DOMAIN visibleActions # {}

\* no onWillAppear is suspended before its startRefreshTimer
AppearsDone == \A t \in tasks : t.kind # "appear"

\* C6: with the default interval, once two instances have appeared and the
\* appear handlers have run, exactly one timer is armed while one or two
\* instances are visible, and none is armed (so no timer-driven sweep
\* starts) once both have disappeared
C6_TimerFollowsInstances ==
    (appeared = Instances /\ AppearsDone) =>
        Cardinality(intervals) = IF DOMAIN visibleActions = {} THEN 0 ELSE 1

\* C7: at most one recurring timer is armed, and it is the one recorded in
\* refreshTimer: no orphan interval keeps ticking
C7_AtMostOneTimer ==
    /\ Cardinality(intervals) <= 1
    /\ \A h \in intervals : h.id = refreshTimer
    /\ refreshTimer # 0 => \E h \in intervals : h.id = refreshTimer

\* C7 witness: both instances are visible, both appear handlers have started
\* the timer with a positive interval, the second replacing the first
C7_Witness ==
    /\ DOMAIN visibleActions = Instances
    /\ tasks = {}
    /\ nextId = 3
    /\ \A i \in Instances : IntervalOf(visibleActions[i].settings) > 0
    /\ Cardinality(intervals) = 1

(* ------------------------------------------------------------------ *)
(* Properties: the public address cache                                *)
(* ------------------------------------------------------------------ *)

\* the fetches a step issues
Issued == {t \in tasks' : t.pc = "fetch"} \ tasks

\* the public addresses a step hands on to a handler: drawn into the image
\* it sends, or stored with the long-press timer it arms
HandedOn ==
    {t.publicIP : t \in {u \in tasks' \ tasks : u.pc = "setImage"}} \cup
    {tm.publicIP : tm \in timeouts' \ timeouts}

\* C8: a call of getPublicIPAddress that finds a cached value younger than
\* 5 minutes hands that value on and issues no fetch; a call that finds a
\* cached value 5 minutes old or older issues a fetch
C8_CacheServedWhileFresh ==
    [][lastCall'.made =>
          /\ (lastCall'.ip # Null /\ lastCall'.age < 5 * 60 * 1000) =>
                (Issued = {} /\ HandedOn = {lastCall'.ip})
          /\ (lastCall'.ip # Null /\ lastCall'.age >= 5 * 60 * 1000) =>
                (Issued # {} /\ HandedOn = {})]_vars

\* C8 witness: a call has just been served a cached value that is 400 ms
\* short of 5 minutes old
C8_Witness ==
    /\ lastCall.made /\ lastCall.hit
    /\ lastCall.ip \in PublicIPs
    /\ lastCall.age = CACHE_DURATION - 400

\* the lookup of the suspended invocation t fails
FetchFails(t) == FetchReturn(t, [kind |-> "error", ip |-> Null])

\* C9: when a lookup fails, the handler goes on (nothing is thrown), the
\* cache entry is what it was when getPublicIPAddress was called and the
\* value handed on is the value that was cached then
C9_FailedLookupKeepsEntryOfCall ==
    [][\A t \in tasks : FetchFails(t) =>
          /\ publicIPCache' = t.atCall
          /\ HandedOn = {t.atCall.ip}]_vars

\* C10: a short press issues a fetch whatever the age of the cache entry,
\* and the cache entry changes only in the step in which a lookup completes
\* with an answer
C10_CacheChangedOnlyByLookup ==
    [][/\ (\E p \in DOMAIN presses : presses'[p].short > presses[p].short) => Issued # {}
       /\ publicIPCache' # publicIPCache =>
             \E t \in tasks, o \in Outcomes : o.kind # "error" /\ FetchReturn(t, o)]_vars

\* C11: once a lookup has answered with an address, every value that
\* getPublicIPAddress hands on to a handler, and so every image drawn, is an
\* address: null is handed on only while no lookup has succeeded
C11_LastGoodValueMasksFailure ==
    [][succeeded => HandedOn \subseteq PublicIPs]_vars

\* the lookup of the suspended invocation t answers with success status and
\* a body without an address
FetchEmpty(t) == FetchReturn(t, [kind |-> "empty", ip |-> Null])

\* C12: when a lookup answers with a body that carries no address, the
\* cache entry is left as it was and the value cached before is handed on
C12_EmptyBodyIsFailure ==
    [][\A t \in tasks : FetchEmpty(t) =>
          /\ publicIPCache' = publicIPCache
          /\ HandedOn = {publicIPCache.ip}]_vars

(* ------------------------------------------------------------------ *)
(* Properties: the mode of a Toggle button                             *)
(* ------------------------------------------------------------------ *)

\* C13: a press-up that the host delivers less than 800 ms after the
\* press-down advances the persisted mode of the instance one step along
\* dual, local, public, dual; three steps lead back to the starting mode;
\* and when the setImage of a short press is issued the mode it draws is the
\* persisted one
C13_ShortPressAdvancesMode ==
    [][/\ \A p \in DOMAIN presses :
             (presses[p].held = "down" /\ presses'[p].held = "short") =>
                persistedMode'[presses[p].inst] =
                    getNextMode(ModeOf(persistedMode[presses[p].inst]))
       /\ \A m \in {"dual", "local", "public"} :
             getNextMode(getNextMode(getNextMode(m))) = m
       /\ \A u \in tasks' \ tasks :
             (u.kind = "keyUp" /\ u.pc = "setImage") =>
                persistedMode[u.inst] = u.mode]_vars

LastHandled == \A t \in tasks : t.id # lastDelivered.id

\* C15: once the appear or settings-changed event delivered last carried
\* refreshInterval = 0 and has been handled, no refresh timer is armed and
\* no timer sweep is re-rendering
C15_ZeroIntervalDisablesTimer ==
    (lastDelivered.interval = 0 /\ LastHandled) =>
        /\ intervals = {}
        /\ \A t \in tasks : t.kind # "sweep"

\* no handler of an appear or settings-changed event is suspended
TimerEventsHandled == \A t \in tasks : t.kind \notin {"appear", "settings"}

\* C16: while an instance is visible and the handlers of all appear and
\* settings-changed events have finished, the shared timer runs with the
\* interval of the event delivered last (no timer when that interval is 0)
C16_LastDeliveredIntervalWins ==
    (DOMAIN visibleActions # {} /\ lastDelivered.interval >= 0 /\ TimerEventsHandled) =>
        {h.period : h \in intervals} =
            IF lastDelivered.interval > 0 THEN {lastDelivered.interval} ELSE {}

\* C17: the step that handles a settings-changed event for an instance
\* leaves the shared timer running with the interval of that event (no
\* timer for 0) and starts exactly one re-render of that instance, drawn
\* with the settings of the event
C17_SettingsChangeRerenders ==
    [][\A i \in Instances, s \in SettingsValues :
          (DidReceiveSettings(i, s) \/ PublicOnlyDidReceiveSettings(i, s)) =>
             /\ {h.period : h \in intervals'} =
                   IF IntervalOf(s) > 0 THEN {IntervalOf(s)} ELSE {}
             /\ Cardinality({u \in tasks' \ tasks :
                   u.kind = "settings" /\ u.inst = i /\ u.settings = s}) = 1]_vars

(* ------------------------------------------------------------------ *)
(* Properties: the timer sweep                                         *)
(* ------------------------------------------------------------------ *)

\* the visible instance a sweep turns to after the entry with the stamp
FirstAfter(stamp) ==
    CHOOSE x \in EntriesAfter(stamp) :
        \A y \in EntriesAfter(stamp) : visibleActions[x].stamp <= visibleActions[y].stamp

\* the sweep with identifier k is running
Sweeping(k) == \E t \in tasks : t.id = k /\ t.kind = "sweep"

\* C18: a tick starts a re-render of the first visible instance; when the
\* re-render of one instance has ended, with or without an error, the sweep
\* goes on to the next instance visible at that time, having logged the
\* error, and ends when there is none; and every sweep ends
C18_SweepGoesOnAfterError ==
    /\ [][/\ \A h \in intervals :
                (IntervalTick(h) /\ DOMAIN visibleActions # {}) =>
                   \E u \in tasks' : /\ u.id = nextId /\ u.kind = "sweep"
                                     /\ u.inst = FirstAfter(0)
          /\ \A t \in tasks, ok \in BOOLEAN :
                SweepNext(t, ok) =>
                   IF EntriesAfter(t.stamp) = {}
                   THEN \A u \in tasks' : u.id # t.id
                   ELSE \E u \in tasks' : /\ u.id = t.id /\ u.kind = "sweep"
                                          /\ u.inst = FirstAfter(t.stamp)
                                          /\ u.stamp > t.stamp
                                          /\ ~ok => u.logged]_vars
    /\ \A k \in 1..MaxTasks : Sweeping(k) ~> ~Sweeping(k)

\* C18 witness: both instances are visible and a sweep, after an error for
\* A, has gone on to B
C18_Witness ==
    /\ DOMAIN visibleActions = Instances
    /\ visibleActions["A"].stamp < visibleActions["B"].stamp
    /\ \E t \in tasks : t.kind = "sweep" /\ t.inst = "B" /\ t.logged

(* ------------------------------------------------------------------ *)
(* Properties: the visible instances                                   *)
(* ------------------------------------------------------------------ *)

\* C19: the instances registered in visibleActions are exactly those whose
\* last visibility event from the host was an appear, whatever handlers are
\* suspended
C19_VisibleIffAppearedLast ==
    /\ [](DOMAIN visibleActions = hostVisible)
    /\ [][/\ \A i \in Instances, s \in SettingsValues :
                WillAppear(i, s) =>
                   DOMAIN visibleActions' = DOMAIN visibleActions \cup {i}
          /\ \A i \in Instances :
                WillDisappear(i) =>
                   DOMAIN visibleActions' = DOMAIN visibleActions \ {i}
          /\ DOMAIN visibleActions' # DOMAIN visibleActions =>
                \E i \in Instances :
                   \/ WillDisappear(i)
                   \/ \E s \in SettingsValues : WillAppear(i, s)]_vars

\* C19 witness: A has appeared and disappeared while its appear handler is
\* still suspended, and B is visible
C19_Witness ==
    /\ hostVisible = {"B"}
    /\ DOMAIN visibleActions = {"B"}
    /\ \E t \in tasks : t.kind = "appear" /\ t.inst = "A"

(* ------------------------------------------------------------------ *)
(* Properties: overlapping handler invocations                         *)
(* ------------------------------------------------------------------ *)

\* the invocations suspended on a fetch whose answer is written to the cache
LookupsInFlight == {t \in tasks : t.pc = "fetch"}

\* C20: at no time are two handler invocations suspended on awaits that
\* touch the same shared state: at most one public-address lookup that will
\* write the cache is in flight
C20_OneLookupInFlight ==
    Cardinality(LookupsInFlight) <= 1

(* ------------------------------------------------------------------ *)
(* Properties: the stored presses and their timers                     *)
(* ------------------------------------------------------------------ *)

\* the long-press timer with handle h is armed
Armed(h, armed) == \E tm \in armed : tm.id = h

\* C21: every armed long-press timer is the one recorded in the stored press
\* of its instance; when a stored press is deleted or overwritten its timer
\* has fired or been cleared by then; and a timer that fires is the recorded
\* one
C21_TimerClearedBeforeStateDropped ==
    /\ [](\A tm \in timeouts :
             /\ tm.inst \in DOMAIN pressTimers
             /\ pressTimers[tm.inst].timer = tm.id)
    /\ [][/\ \A i \in DOMAIN pressTimers :
                (i \notin DOMAIN pressTimers' \/ pressTimers'[i] # pressTimers[i]) =>
                   ~Armed(pressTimers[i].timer, timeouts')
          /\ \A tm \in timeouts :
                (LongPressTimer(tm) \/ LongPressTimerFailed(tm)) =>
                   /\ tm.inst \in DOMAIN pressTimers
                   /\ pressTimers[tm.inst].timer = tm.id]_vars

\* a press of instance i is in progress: the host holds its key down, or a
\* press-up handler of the instance has not finished
PressInProgress(i) ==
    \/ hostKey[i] # 0
    \/ \E t \in tasks : t.kind = "keyUp" /\ t.inst = i

\* C22: the press map has an entry for an instance only between its
\* press-down and the end of the press-up or disappear handler, whether
\* that handler succeeded or an awaited host call failed
C22_PressStoredOnlyDuringPress ==
    \A i \in DOMAIN pressTimers : PressInProgress(i)

\* the step is a key or disappear event of instance a, a continuation of
\* one of its key handlers, or the firing of one of its long-press timers
KeyStepOf(a) ==
    \/ KeyDown(a) \/ KeyUp(a) \/ WillDisappear(a)
    \/ \E t \in tasks :
          /\ t.inst = a /\ t.kind \in {"keyDown", "keyUp"}
          /\ \/ \E o \in Outcomes : FetchReturn(t, o)
             \/ KeyUpDone(t) \/ KeyUpFailed(t)
    \/ \E tm \in timeouts :
          tm.inst = a /\ (LongPressTimer(tm) \/ LongPressTimerFailed(tm))

\* the stored press of instance b, if any
StoredPress(b, map) == IF b \in DOMAIN map THEN <<map[b]>> ELSE <<>>

ArmedNow == timeouts' \ timeouts

\* C24: the text a long press writes is built from the values of the
\* press-down only: the local address and the mode read at press-down and
\* the public address known then (the cached one, or the answer to the
\* lookup made then), whatever happens to the cache until the timer fires;
\* and the timer makes one write
C24_CopyUsesPressDownSnapshot ==
    [][/\ \A i \in Instances : KeyDown(i) =>
             \A tm \in ArmedNow :
                /\ tm.localIP = getLocalIPAddress(NoSettings)
                /\ tm.publicIP = publicIPCache.ip
                /\ tm.mode = ModeOf(persistedMode[i])
       /\ \A t \in tasks, o \in Outcomes :
             (t.kind = "keyDown" /\ FetchReturn(t, o)) =>
                \A tm \in ArmedNow :
                   /\ tm.localIP = t.localIP
                   /\ tm.publicIP = IF o.kind = "ok" THEN o.ip ELSE t.atCall.ip
                   /\ tm.mode = t.mode
       /\ \A tm \in timeouts : ToggleLongPressTimer(tm) =>
             /\ clipboard' = ToggleClipboardText(tm.localIP, tm.publicIP, tm.mode)
             /\ Len(presses'[tm.press].shown) = Len(presses[tm.press].shown) + 1]_vars

\* C25: a long press on a Dual IP button copies the local and the public
\* address joined by one comma when both are present, and the one that is
\* present alone when exactly one is
C25_DualCopiesCommaSeparated ==
    [][\A tm \in timeouts : LongPressTimer(tm) =>
          /\ (tm.localIP # Null /\ tm.publicIP # Null) =>
                clipboard' = <<tm.localIP, ",", tm.publicIP>>
          /\ (tm.localIP # Null /\ tm.publicIP = Null) => clipboard' = <<tm.localIP>>
          /\ (tm.localIP = Null /\ tm.publicIP # Null) => clipboard' = <<tm.publicIP>>]_vars

NonLoopbackIPv4(e) ==
    ~e.internal /\ e.family \in {FamilyString("IPv4"), FamilyNumber(4)}

\* a is the address of the first non-loopback IPv4 entry of the adapter
FirstOfAdapter(adapter, a) ==
    \E j \in 1..Len(adapter.addrs) :
        /\ NonLoopbackIPv4(adapter.addrs[j]) /\ adapter.addrs[j].address = a
        /\ \A i \in 1..(j - 1) : ~NonLoopbackIPv4(adapter.addrs[i])

\* the adapter has a non-loopback IPv4 entry
HasAddress(adapter) ==
    \E j \in 1..Len(adapter.addrs) : NonLoopbackIPv4(adapter.addrs[j])

\* a is the first non-loopback IPv4 address in enumeration order
FirstOfEnumeration(nets, a) ==
    \E k \in 1..Len(nets) :
        /\ FirstOfAdapter(nets[k], a)
        /\ \A i \in 1..(k - 1) : ~HasAddress(nets[i])

\* C27: with a hint the result is the first non-loopback IPv4 address of
\* the hinted adapter whenever that adapter has one, wherever it comes in
\* the enumeration; when the hinted adapter is absent or has none, the
\* result is that of the call without a hint
C27_HintedAdapterPreferred ==
    Applied =>
        LET nets == pure.args.nets
            hint == pure.args.hint
            hinted == {k \in 1..Len(nets) : hint # <<>> /\ nets[k].name = hint[1]}
        IN  IF \E k \in hinted : HasAddress(nets[k])
            THEN \E k \in hinted : FirstOfAdapter(nets[k], pure.out[1])
            ELSE pure.out[1] = resolveLocalAddress(nets, <<>>)

\* C27 witness: eth0 comes first and has an address, the hint names wlan0,
\* and the address of wlan0 was returned
C27_Witness ==
    /\ Applied
    /\ pure.args.hint = <<"wlan0">>
    /\ Len(pure.args.nets) = 2
    /\ pure.args.nets[1].name = "eth0" /\ HasAddress(pure.args.nets[1])
    /\ pure.args.nets[2].name = "wlan0" /\ HasAddress(pure.args.nets[2])
    /\ FirstOfAdapter(pure.args.nets[2], pure.out[1])

\* C28: getLocalIPAddress always returns; it returns an address exactly when
\* some adapter has a non-loopback IPv4 entry, the family given as 'IPv4' or
\* as 4; and without a hint the address is the first such in enumeration
\* order
C28_LocalAddressIffQualifyingEntry ==
    /\ ~Applied =>
          resolveLocalAddress(pure.args.nets, pure.args.hint) \in
              {Null} \cup {AddressTable[k][j] : k \in 1..2, j \in 1..MaxAddrs}
    /\ Applied =>
          LET nets == pure.args.nets
          IN  /\ pure.out[1] # Null <=> \E k \in 1..Len(nets) : HasAddress(nets[k])
              /\ (pure.args.hint = <<>> /\ pure.out[1] # Null) =>
                    FirstOfEnumeration(nets, pure.out[1])

\* C28 witness: the address returned belongs to an entry whose family is the
\* number 4, after an adapter that has IPv6 and loopback entries only
C28_Witness ==
    /\ Applied
    /\ pure.args.hint = <<>>
    /\ Len(pure.args.nets) = 2
    /\ ~HasAddress(pure.args.nets[1]) /\ Len(pure.args.nets[1].addrs) = 2
    /\ \E j \in 1..Len(pure.args.nets[2].addrs) :
          /\ pure.args.nets[2].addrs[j].family = FamilyNumber(4)
          /\ pure.args.nets[2].addrs[j].address = pure.out[1]

(* ------------------------------------------------------------------ *)
(* Properties: the renderers                                           *)
(* ------------------------------------------------------------------ *)

\* the fill colour in force at the k-th operation on the canvas
ColourInForce(ops, k) ==
    LET styles == {j \in 1..(k - 1) : ops[j].op = "fillStyle"}
    IN  IF styles = {} THEN "#000000"
        ELSE ops[CHOOSE j \in styles : \A i \in styles : i <= j].v[1]

\* how many of the two addresses are present
PresentCount(localIP, publicIP) ==
    (IF Truthy(localIP) THEN 1 ELSE 0) + (IF Truthy(publicIP) THEN 1 ELSE 0)

DotsIn(chars) == Cardinality({k \in 1..Len(chars) : chars[k] = "."})

\* the string has exactly four dot-separated parts
FourParts(ip) == ip # <<>> /\ DotsIn(ip[1]) = 3

\* the position of the second dot of a string that has one
SecondDot(chars) ==
    CHOOSE k \in 1..Len(chars) :
        chars[k] = "." /\ DotsIn(SubSeq(chars, 1, k)) = 2

\* the string up to its second dot, and the rest of it
UpToSecondDot(chars) == SubSeq(chars, 1, SecondDot(chars))

AfterSecondDot(chars) == SubSeq(chars, SecondDot(chars) + 1, Len(chars))

\* the rendering shows the address in its two lines when it has four parts,
\* and the placeholder instead of them when it has not
TwoLinesOrPlaceholder(ops, ip, placeholder) ==
    LET texts == {ops[k].v : k \in {j \in 1..Len(ops) : ops[j].op = "fillText"}}
    IN  IF FourParts(ip)
        THEN /\ UpToSecondDot(ip[1]) \in texts
             /\ AfterSecondDot(ip[1]) \in texts
             /\ <<placeholder>> \notin texts
        ELSE <<placeholder>> \in texts

\* C30: splitIP of a string of exactly four dot-separated parts A.B.C.D
\* returns "A.B." and "C.D", which joined give the string again; of null, of
\* the empty string and of any other string it returns nothing, and the
\* multi-line rendering then shows "No Local IP" or "No Public IP" in the
\* place of the address
C30_SplitIPFourPartsOrPlaceholder ==
    /\ (Applied /\ pure.fn = "splitIP") =>
          LET ip == pure.args.ip
          IN  IF FourParts(ip)
              THEN /\ pure.out[1] = <<[line1 |-> UpToSecondDot(ip[1]),
                                       line2 |-> AfterSecondDot(ip[1])]>>
                   /\ pure.out[1][1].line1 \o pure.out[1][1].line2 = ip[1]
              ELSE pure.out[1] = <<>>
    /\ (Applied /\ pure.fn = "generateIPImage" /\ pure.args.settings.multilineIP) =>
          /\ TwoLinesOrPlaceholder(pure.out[1], pure.args.localIP, "No Local IP")
          /\ TwoLinesOrPlaceholder(pure.out[1], pure.args.publicIP, "No Public IP")

\* C30 witness: splitIP("192.168.1.100") returned "192.168." and "1.100"
C30_Witness ==
    /\ Applied
    /\ pure.fn = "splitIP"
    /\ pure.args.ip = <<Chars192>>
    /\ pure.out[1] = <<[line1 |-> <<"1", "9", "2", ".", "1", "6", "8", ".">>,
                        line2 |-> <<"1", ".", "1", "0", "0">>]>>

(* ------------------------------------------------------------------ *)
(* Properties: lookups and instances that go away                      *)
(* ------------------------------------------------------------------ *)

\* the invocation with identifier k is suspended on its fetch
Fetching(k) == \E t \in tasks : t.id = k /\ t.pc = "fetch"

\* C31: a lookup in flight is not cancelled when the instance it was started
\* for disappears: the disappear event leaves every suspended invocation as
\* it is, a suspended fetch ends only by its own answer, an answer with an
\* address is written to the cache with the time of the call whether the
\* instance is still visible or not, and every fetch ends
C31_LookupOutlivesInstance ==
    /\ [][/\ \A i \in Instances : WillDisappear(i) => tasks' = tasks
          /\ \A t \in tasks :
                (t.pc = "fetch" /\ t \notin tasks') =>
                   \E o \in Outcomes : FetchReturn(t, o)
          /\ \A t \in tasks, o \in Outcomes :
                (FetchReturn(t, o) /\ o.kind = "ok") =>
                   publicIPCache' = [ip |-> o.ip, timestamp |-> t.fetchNow]]_vars
    /\ \A k \in 1..MaxTasks : Fetching(k) ~> ~Fetching(k)

\* C31 witness: A appeared and disappeared while the lookup of its appear
\* handler was in flight; A appeared again, which started a second lookup,
\* and is gone again; and the first lookup has answered and its address is
\* in the cache
C31_Witness ==
    /\ hostVisible = {}
    /\ \E t1, t2 \in tasks :
          /\ t1.id = 1 /\ t1.kind = "appear" /\ t1.inst = "A" /\ t1.pc = "setImage"
          /\ t2.id = 2 /\ t2.kind = "appear" /\ t2.inst = "A" /\ t2.pc = "fetch"
          /\ t1.publicIP \in PublicIPs
          /\ publicIPCache.ip = t1.publicIP

(* ------------------------------------------------------------------ *)
(* Properties: the settings a timer sweep draws with                   *)
(* ------------------------------------------------------------------ *)

\* the re-renders of instances a step of a timer sweep begins: the first of
\* a tick, or the next after the re-render of one instance has ended
SweepRendersBegun ==
    IF \/ \E h \in intervals : IntervalTick(h)
       \/ \E t \in tasks : SweepNext(t, TRUE)
    THEN {u \in tasks' \ tasks : u.kind = "sweep"}
    ELSE {}

\* C32: a re-render that a timer sweep begins for an instance is drawn with
\* the settings the instance is known to have then: the refresh interval of
\* the appear or settings-changed event delivered last, and the mode
\* persisted last, also after a settings-changed event and after a short
\* press has changed them since the instance appeared
C32_SweepDrawsLastKnownSettings ==
    [][\A u \in SweepRendersBegun :
          /\ IntervalOf(visibleActions[u.inst].settings) = lastDelivered.interval
          /\ u.mode = ModeOf(persistedMode[u.inst])]_vars

(* ------------------------------------------------------------------ *)
(* Properties: the settings a press persists                           *)
(* ------------------------------------------------------------------ *)

\* C33: the record a press that toggles the mode hands to setSettings has
\* the next mode in its mode field, and in every other field (refresh
\* interval, labels, multi-line flag, adapter, colours) the value of the
\* settings delivered with the event
C33_ShortPressKeepsOtherSettings ==
    Applied =>
        /\ pure.out[1].mode = <<getNextMode(DestructuredMode(pure.args.settings))>>
        /\ \A f \in DOMAIN pure.args.settings \ {"mode"} :
              pure.out[1][f] = pure.args.settings[f]

(* ------------------------------------------------------------------ *)
(* Properties: images and instances that are gone                      *)
(* ------------------------------------------------------------------ *)

\* the instances a step delivers an image to: those of the invocations that
\* reach their setImage in the step
ImagesSentTo == {u.inst : u \in {v \in tasks' \ tasks : v.pc = "setImage"}}

\* C34: an image is delivered to instances only that are visible: none to
\* an instance whose disappear event has been handled and that has not
\* appeared again, whether by a suspended handler or by a timer sweep
C34_NoImageForGoneInstance ==
    [][ImagesSentTo \subseteq hostVisible']_vars

(* ------------------------------------------------------------------ *)
(* Properties: overlapping sweeps and lookups                          *)
(* ------------------------------------------------------------------ *)

\* the timer sweeps that are suspended on a lookup or on a setImage
SweepsRunning == {t \in tasks : t.kind = "sweep"}

\* C35: timer sweeps do not overlap: at most one pass over the visible
\* instances is suspended at any time, so a tick starts no pass while the
\* pass of an earlier tick is still under way
C35_SweepsDoNotOverlap ==
    Cardinality(SweepsRunning) <= 1

\* the lookups whose fetch settles in this step
LookupsCompleted ==
    {t \in tasks : t.pc = "fetch" /\ \E o \in Outcomes : FetchReturn(t, o)}

\* C36: a lookup that completes never replaces the cache entry by one with
\* an older timestamp, so after two overlapping lookups the entry is that of
\* the lookup started later
C36_CacheTimestampNeverGoesBack ==
    [][LookupsCompleted # {} => publicIPCache'.timestamp >= publicIPCache.timestamp]_vars

(* ------------------------------------------------------------------ *)
(* Properties: the adapter list of the settings UI                     *)
(* ------------------------------------------------------------------ *)

\* the names listed for the enumeration nets
ListedNames(nets) ==
    {networkInterfaceItems(nets)[k].value : k \in 1..Len(networkInterfaceItems(nets))}

\* the address a is bound to the adapter called name
BoundTo(nets, name, a) ==
    \E k \in 1..Len(nets) :
        /\ nets[k].name = name
        /\ \E j \in 1..Len(nets[k].addrs) : nets[k].addrs[j].address = a

\* C37: the list sent on getNetworkInterfaces holds exactly the adapters
\* with a non-loopback IPv4 address, and on the same enumeration the
\* resolver, given a listed name as the override, returns an address of
\* that adapter
C37_ListedAdaptersResolve ==
    /\ (Applied /\ pure.fn = "onSendToPlugin") =>
          LET nets == pure.args.nets
              items == pure.out[1]
          IN  /\ \A k \in 1..Len(items) : items[k].label = items[k].value
              /\ {items[k].value : k \in 1..Len(items)} =
                    {nets[k].name : k \in {i \in 1..Len(nets) : HasAddress(nets[i])}}
    /\ (Applied /\ pure.fn = "getLocalIPAddress"
          /\ pure.args.hint[1] \in ListedNames(pure.args.nets)) =>
          BoundTo(pure.args.nets, pure.args.hint[1], pure.out[1])

\* C37 witness: eth0 comes first and has an address, wlan0 is listed too,
\* and with wlan0 as the override an address of wlan0 was returned
C37_Witness ==
    /\ Applied /\ pure.fn = "getLocalIPAddress"
    /\ pure.args.hint = <<"wlan0">>
    /\ Len(pure.args.nets) = 2
    /\ pure.args.nets[1].name = "eth0" /\ HasAddress(pure.args.nets[1])
    /\ ListedNames(pure.args.nets) = {"eth0", "wlan0"}
    /\ BoundTo(pure.args.nets, "wlan0", pure.out[1])

====
